---- MODULE Spec2Model ----
(***************************************************************************)
(* Model of the voice-to-face animation core:                              *)
(*   backend/phoneme_mapper.py   (PhonemeMapper, VISEME_MAP)               *)
(*   backend/audio_processor.py  (AudioProcessor)                          *)
(*   backend/server.py           (animate_from_text)                       *)
(*                                                                         *)
(* Python floats are IEEE-754 binary64 values; they are modelled exactly   *)
(* (53-bit significand, round-to-nearest-even) because the frame count     *)
(* and the interval tests of generate_animation_sequence depend on the     *)
(* rounding of 0.08, 0.1 and 1.0/fps.                                      *)
(***************************************************************************)
EXTENDS Integers, Sequences, FiniteSets, TLC

(***************************************************************************)
(* Arbitrary-size naturals: little-endian sequences of 15-bit limbs with   *)
(* no leading zero limb (<<>> is zero).  They carry the significands of    *)
(* the binary64 values.                                                    *)
(***************************************************************************)
LimbBits == 15

Pow2Tab == [i \in 0..30 |-> 2^i]

Pow2(n) == Pow2Tab[n]

Base == Pow2(LimbBits)

BLimb(a, i) == IF i >= 1 /\ i <= Len(a) THEN a[i] ELSE 0

RECURSIVE BStrip(_)
BStrip(a) ==
    IF a = <<>> THEN a
    ELSE IF a[Len(a)] = 0 THEN BStrip(SubSeq(a, 1, Len(a) - 1))
    ELSE a

RECURSIVE BFromInt(_)
BFromInt(n) == IF n = 0 THEN <<>> ELSE <<n % Base>> \o BFromInt(n \div Base)

RECURSIVE BToInt(_)
BToInt(a) == IF a = <<>> THEN 0 ELSE a[1] + Base * BToInt(Tail(a))

RECURSIVE BAddFrom(_, _, _, _, _)
BAddFrom(a, b, i, carry, acc) ==
    IF i > Len(a) /\ i > Len(b)
    THEN IF carry = 0 THEN acc ELSE Append(acc, carry)
    ELSE LET s == BLimb(a, i) + BLimb(b, i) + carry
         IN  BAddFrom(a, b, i + 1, s \div Base, Append(acc, s % Base))

BAdd(a, b) == BAddFrom(a, b, 1, 0, <<>>)

\* a - b for a >= b
RECURSIVE BSubFrom(_, _, _, _, _)
BSubFrom(a, b, i, borrow, acc) ==
    IF i > Len(a) THEN BStrip(acc)
    ELSE LET d == a[i] - BLimb(b, i) - borrow
         IN  IF d < 0 THEN BSubFrom(a, b, i + 1, 1, Append(acc, d + Base))
             ELSE BSubFrom(a, b, i + 1, 0, Append(acc, d))

BSub(a, b) == BSubFrom(a, b, 1, 0, <<>>)

\* -1, 0, 1 as a < b, a = b, a > b
RECURSIVE BCmpFrom(_, _, _)
BCmpFrom(a, b, i) ==
    IF i = 0 THEN 0
    ELSE IF a[i] < b[i] THEN -1
    ELSE IF a[i] > b[i] THEN 1
    ELSE BCmpFrom(a, b, i - 1)

BCmp(a, b) ==
    IF Len(a) < Len(b) THEN -1
    ELSE IF Len(a) > Len(b) THEN 1
    ELSE BCmpFrom(a, b, Len(a))

\* a * k for 0 <= k <= Base
RECURSIVE BMulSmallFrom(_, _, _, _, _)
BMulSmallFrom(a, k, i, carry, acc) ==
    IF i > Len(a)
    THEN IF carry = 0 THEN acc ELSE Append(acc, carry)
    ELSE LET p == a[i] * k + carry
         IN  BMulSmallFrom(a, k, i + 1, p \div Base, Append(acc, p % Base))

BMulSmall(a, k) == IF k = 0 THEN <<>> ELSE BMulSmallFrom(a, k, 1, 0, <<>>)

BShiftLimbs(a, q) == IF a = <<>> THEN a ELSE [i \in 1..q |-> 0] \o a

RECURSIVE BMulFrom(_, _, _, _)
BMulFrom(a, b, i, acc) ==
    IF i > Len(b) THEN acc
    ELSE BMulFrom(a, b, i + 1,
                  BAdd(acc, BShiftLimbs(BMulSmall(a, b[i]), i - 1)))

BMul(a, b) == BMulFrom(a, b, 1, <<>>)

\* a * 2^n
BShl(a, n) == BShiftLimbs(BMulSmall(a, Pow2(n % LimbBits)), n \div LimbBits)

\* floor(a / 2^n)
BShr(a, n) ==
    LET q == n \div LimbBits
        r == n % LimbBits
        c == IF q >= Len(a) THEN <<>> ELSE SubSeq(a, q + 1, Len(a))
    IN  BStrip([i \in 1..Len(c) |->
                  (c[i] \div Pow2(r)) + (BLimb(c, i + 1) % Pow2(r)) * Pow2(LimbBits - r)])

\* bit n of a (bit 0 is the least significant)
BBit(a, n) == (BLimb(a, (n \div LimbBits) + 1) \div Pow2(n % LimbBits)) % 2

\* TRUE iff the n low bits of a are all zero
BLowZero(a, n) ==
    /\ \A i \in 1..(n \div LimbBits) : BLimb(a, i) = 0
    /\ BLimb(a, (n \div LimbBits) + 1) % Pow2(n % LimbBits) = 0

RECURSIVE IntBitLen(_)
IntBitLen(n) == IF n = 0 THEN 0 ELSE 1 + IntBitLen(n \div 2)

BBitLen(a) == IF a = <<>> THEN 0 ELSE LimbBits * (Len(a) - 1) + IntBitLen(a[Len(a)])

\* the largest q with q * b <= r, for r < b * Base and a divisor b whose top
\* limb is at least Base / 2: the two-limb estimate, corrected downward
RECURSIVE BDigitFix(_, _, _)
BDigitFix(r, b, q) ==
    IF BCmp(BMulSmall(b, q), r) > 0 THEN BDigitFix(r, b, q - 1) ELSE q

BDigit(r, b) ==
    LET n   == Len(b)
        est == (BLimb(r, n + 1) * Base + BLimb(r, n)) \div b[n]
    IN  BDigitFix(r, b, IF est >= Base THEN Base - 1 ELSE est)

\* long division, one limb of the quotient per step; d is the pair
\* [quot, rem] after the limbs produced so far
RECURSIVE BDivLimbs(_, _, _)
BDivLimbs(d, b, k) ==
    IF k = 0 THEN d
    ELSE LET r1 == BShiftLimbs(d.rem, 1)
             q  == BDigit(r1, b)
         IN  BDivLimbs([quot |-> BStrip(<<q>> \o d.quot),
                        rem  |-> BSub(r1, BMulSmall(b, q))], b, k - 1)

\* quotient and remainder of (a * Base^k) / b for b <= a < 2b or a < b
BDivScaled(a, b, k) ==
    LET s  == LimbBits - IntBitLen(b[Len(b)])
        an == BShl(a, s)
        bn == BShl(b, s)
    IN  IF BCmp(an, bn) >= 0
        THEN BDivLimbs([quot |-> <<1>>, rem |-> BSub(an, bn)], bn, k)
        ELSE BDivLimbs([quot |-> <<>>, rem |-> an], bn, k)

(***************************************************************************)
(* binary64: a non-negative finite double is [m, e] with value m * 2^e,    *)
(* m a 53-bit significand (2^52 <= m < 2^53), or FZero.  All values of the *)
(* program are non-negative and far from the subnormal and overflow range. *)
(***************************************************************************)
SigBits == 53

FZero == [m |-> <<>>, e |-> 0]

\* limbs of quotient computed by a division: more bits than SigBits + 2
QuotLimbs == 4

\* round (N + f) * 2^e to nearest-even, N > 0, 0 <= f < 1, f # 0 iff sticky
FRound(N, e, sticky) ==
    LET len == BBitLen(N)
    IN  IF len <= SigBits
        THEN [m |-> BShl(N, SigBits - len), e |-> e - (SigBits - len)]
        ELSE LET s     == len - SigBits
                 q     == BShr(N, s)
                 guard == BBit(N, s - 1) = 1
                 rest  == sticky \/ ~BLowZero(N, s - 1)
                 up    == guard /\ (rest \/ BBit(q, 0) = 1)
                 q1    == IF up THEN BAdd(q, <<1>>) ELSE q
             IN  IF BBitLen(q1) > SigBits
                 THEN [m |-> BShr(q1, 1), e |-> e + s + 1]
                 ELSE [m |-> q1, e |-> e + s]

\* float(n) for an int n >= 0
FromInt(n) == IF n = 0 THEN FZero ELSE FRound(BFromInt(n), 0, FALSE)

\* x + y
FAdd(x, y) ==
    IF x.m = <<>> THEN y
    ELSE IF y.m = <<>> THEN x
    ELSE LET e == IF x.e < y.e THEN x.e ELSE y.e
         IN  FRound(BAdd(BShl(x.m, x.e - e), BShl(y.m, y.e - e)), e, FALSE)

\* x * y
FMul(x, y) ==
    IF x.m = <<>> \/ y.m = <<>> THEN FZero
    ELSE FRound(BMul(x.m, y.m), x.e + y.e, FALSE)

\* x / y for y # 0
FDiv(x, y) ==
    IF x.m = <<>> THEN FZero
    ELSE LET d == BDivScaled(x.m, y.m, QuotLimbs)
         IN  FRound(d.quot, x.e - y.e - QuotLimbs * LimbBits, d.rem # <<>>)

\* x < y
FLt(x, y) ==
    IF y.m = <<>> THEN FALSE
    ELSE IF x.m = <<>> THEN TRUE
    ELSE IF x.e # y.e THEN x.e < y.e
    ELSE BCmp(x.m, y.m) < 0

\* x <= y
FLe(x, y) == x = y \/ FLt(x, y)

\* int(x): truncation toward zero
FTrunc(x) ==
    IF x.m = <<>> THEN 0
    ELSE IF x.e >= 0 THEN BToInt(BShl(x.m, x.e))
    ELSE BToInt(BShr(x.m, 0 - x.e))

(***************************************************************************)
(* Program state.  The core is a set of stateless methods; one call is in  *)
(* progress per behaviour: pc is "idle" before it and "done" after it,     *)
(* call names the method, arg holds its arguments, ret its return value    *)
(* and raised the exception that left it ("none" when it returned).        *)
(* audio_base64 is the parameter of decode_audio_base64, which the method  *)
(* assigns; animation_sessions is the db.animation_sessions collection     *)
(* written by the request handlers.  PhonemeMapper.viseme_map is bound     *)
(* once to the module constant VISEME_MAP and never assigned again, so it  *)
(* is the definition VISEME_MAP here and no variable.                      *)
(***************************************************************************)
VARIABLES pc, call, arg, ret, raised, audio_base64, animation_sessions

vars == <<pc, call, arg, ret, raised, audio_base64, animation_sessions>>

(***************************************************************************)
(* VISEME_MAP.  Blendshape weights are the source's one-decimal literals,  *)
(* kept in tenths (0.7 is 7), so a weight lies in [0, 1] iff its value     *)
(* here lies in 0..WeightOne.                                              *)
(***************************************************************************)
WeightOne == 10

Weights(j, c, p, s, f) ==
    [jawOpen |-> j, mouthClose |-> c, mouthPucker |-> p, mouthSmile |-> s, mouthFunnel |-> f]

VISEME_MAP ==
    ("sil" :> Weights(0, 10, 0, 0, 0)) @@
    ("AA" :> Weights(7, 0, 0, 0, 0)) @@
    ("AE" :> Weights(5, 0, 0, 4, 0)) @@
    ("AH" :> Weights(4, 0, 0, 0, 0)) @@
    ("AO" :> Weights(6, 0, 3, 0, 2)) @@
    ("EH" :> Weights(4, 0, 0, 3, 0)) @@
    ("ER" :> Weights(3, 0, 2, 0, 0)) @@
    ("IH" :> Weights(3, 0, 0, 5, 0)) @@
    ("IY" :> Weights(2, 0, 0, 7, 0)) @@
    ("UH" :> Weights(3, 0, 3, 0, 0)) @@
    ("UW" :> Weights(3, 0, 7, 0, 4)) @@
    ("B" :> Weights(0, 10, 0, 0, 0)) @@
    ("P" :> Weights(0, 10, 0, 0, 0)) @@
    ("M" :> Weights(0, 10, 0, 0, 0)) @@
    ("F" :> Weights(2, 0, 0, 0, 0)) @@
    ("V" :> Weights(2, 0, 0, 0, 0)) @@
    ("TH" :> Weights(2, 0, 0, 0, 0)) @@
    ("S" :> Weights(1, 0, 0, 3, 0)) @@
    ("Z" :> Weights(1, 0, 0, 3, 0)) @@
    ("SH" :> Weights(2, 0, 4, 0, 3)) @@
    ("CH" :> Weights(2, 0, 4, 0, 3)) @@
    ("T" :> Weights(2, 0, 0, 0, 0)) @@
    ("D" :> Weights(2, 0, 0, 0, 0)) @@
    ("N" :> Weights(2, 0, 0, 0, 0)) @@
    ("L" :> Weights(3, 0, 0, 2, 0)) @@
    ("R" :> Weights(3, 0, 3, 0, 0)) @@
    ("K" :> Weights(4, 0, 0, 0, 0)) @@
    ("G" :> Weights(4, 0, 0, 0, 0)) @@
    ("W" :> Weights(3, 0, 6, 0, 4)) @@
    ("Y" :> Weights(3, 0, 0, 5, 0))

Channels == {"jawOpen", "mouthClose", "mouthPucker", "mouthSmile", "mouthFunnel"}

\* phoneme_to_viseme with the first vowel as the default entry
phoneme_to_viseme_default_AA(phoneme) ==
    IF phoneme \in DOMAIN VISEME_MAP THEN VISEME_MAP[phoneme] ELSE VISEME_MAP["AA"]

\* dict.get(phoneme, default) on the viseme table
phoneme_to_viseme(phoneme) ==
    IF phoneme \in DOMAIN VISEME_MAP THEN VISEME_MAP[phoneme] ELSE VISEME_MAP["sil"]

(***************************************************************************)
(* Text: a str is a sequence of one-character strings.                     *)
(***************************************************************************)
UpperLetters ==
    <<"A", "B", "C", "D", "E", "F", "G", "H", "I", "J", "K", "L", "M",
      "N", "O", "P", "Q", "R", "S", "T", "U", "V", "W", "X", "Y", "Z">>

LowerLetters ==
    <<"a", "b", "c", "d", "e", "f", "g", "h", "i", "j", "k", "l", "m",
      "n", "o", "p", "q", "r", "s", "t", "u", "v", "w", "x", "y", "z">>

\* str.upper() on one ASCII character
UpperChar(c) ==
    IF \E k \in 1..Len(LowerLetters) : LowerLetters[k] = c
    THEN UpperLetters[CHOOSE k \in 1..Len(LowerLetters) : LowerLetters[k] = c]
    ELSE c

\* str.upper()
upper(s) == [k \in 1..Len(s) |-> UpperChar(s[k])]

SingleConsonants ==
    {"B", "P", "M", "F", "V", "S", "Z", "T", "D", "N", "L", "R", "K", "G", "W", "Y"}

\* the while loop of _word_to_phonemes; i is the code's 0-based index
RECURSIVE WordScanNoCH(_, _, _)
WordScanNoCH(word, i, phonemes) ==
    IF ~(i < Len(word)) THEN phonemes
    ELSE IF i < Len(word) - 1 /\ SubSeq(word, i + 1, i + 2) = <<"T", "H">>
    THEN WordScanNoCH(word, i + 2, Append(phonemes, "TH"))
    ELSE IF i < Len(word) - 1 /\ SubSeq(word, i + 1, i + 2) = <<"S", "H">>
    THEN WordScanNoCH(word, i + 2, Append(phonemes, "SH"))
    ELSE LET char == word[i + 1]
         IN  WordScanNoCH(word, i + 1,
                      IF char = "A" THEN Append(phonemes, "AE")
                      ELSE IF char = "E" THEN Append(phonemes, "EH")
                      ELSE IF char = "I" THEN Append(phonemes, "IH")
                      ELSE IF char = "O" THEN Append(phonemes, "AO")
                      ELSE IF char = "U" THEN Append(phonemes, "AH")
                      ELSE IF char \in SingleConsonants THEN Append(phonemes, char)
                      ELSE phonemes)

RECURSIVE WordScan(_, _, _)
WordScan(word, i, phonemes) ==
    IF ~(i < Len(word)) THEN phonemes
    ELSE IF i < Len(word) - 1 /\ SubSeq(word, i + 1, i + 2) = <<"T", "H">>
    THEN WordScan(word, i + 2, Append(phonemes, "TH"))
    ELSE IF i < Len(word) - 1 /\ SubSeq(word, i + 1, i + 2) = <<"S", "H">>
    THEN WordScan(word, i + 2, Append(phonemes, "SH"))
    ELSE IF i < Len(word) - 1 /\ SubSeq(word, i + 1, i + 2) = <<"C", "H">>
    THEN WordScan(word, i + 2, Append(phonemes, "CH"))
    ELSE LET char == word[i + 1]
         IN  WordScan(word, i + 1,
                      IF char = "A" THEN Append(phonemes, "AE")
                      ELSE IF char = "E" THEN Append(phonemes, "EH")
                      ELSE IF char = "I" THEN Append(phonemes, "IH")
                      ELSE IF char = "O" THEN Append(phonemes, "AO")
                      ELSE IF char = "U" THEN Append(phonemes, "AH")
                      ELSE IF char \in SingleConsonants THEN Append(phonemes, char)
                      ELSE phonemes)

word_to_phonemes(word) == WordScan(upper(word), 0, <<>>)

(***************************************************************************)
(* Inputs of the grapheme-to-phoneme checks: every word of at most         *)
(* MaxShortLen characters over letters, digits and punctuation, and every  *)
(* word of at most MaxWordLen characters over the digraph letters.         *)
(***************************************************************************)
MaxShortLen == 2

MaxWordLen == 4

FullAlphabet ==
    {UpperLetters[k] : k \in 1..Len(UpperLetters)}
      \cup {"a", "h", "s", "t", "0", "1", "9", "!", ".", "'", "-", "?"}

DigraphAlphabet == {"T", "H", "S", "C", "A", "I"}

SeqsUpTo(S, n) == UNION {[1..k -> S] : k \in 0..n}

WordInputs == SeqsUpTo(FullAlphabet, MaxShortLen) \cup SeqsUpTo(DigraphAlphabet, MaxWordLen)

Init ==
    /\ pc = "idle"
    /\ call = "none"
    /\ arg = <<>>
    /\ ret = <<>>
    /\ raised = "none"
    /\ audio_base64 = <<>>
    /\ animation_sessions = <<>>

\* one call of PhonemeMapper._word_to_phonemes
CallWordToPhonemes ==
    /\ pc = "idle"
    /\ \E word \in WordInputs :
        /\ pc' = "done"
        /\ call' = "_word_to_phonemes"
        /\ arg' = [word |-> word]
        /\ ret' = word_to_phonemes(word)
        /\ UNCHANGED <<raised, audio_base64, animation_sessions>>

NextG2P == CallWordToPhonemes

SpecG2P == Init /\ [][NextG2P]_vars

(***************************************************************************)
(* C1.  The scan of the claim, written on the remaining suffix of the      *)
(* upper-cased word.                                                       *)
(***************************************************************************)
RefSingle(c) ==
    CASE c = "A" -> <<"AE">>
      [] c = "E" -> <<"EH">>
      [] c = "I" -> <<"IH">>
      [] c = "O" -> <<"AO">>
      [] c = "U" -> <<"AH">>
      [] c \in {"B", "P", "M", "F", "V", "S", "Z", "T",
                "D", "N", "L", "R", "K", "G", "W", "Y"} -> <<c>>
      [] OTHER -> <<>>

RECURSIVE RefScan(_)
RefScan(w) ==
    IF w = <<>> THEN <<>>
    ELSE IF Len(w) >= 2 /\ w[1] = "T" /\ w[2] = "H" THEN <<"TH">> \o RefScan(SubSeq(w, 3, Len(w)))
    ELSE IF Len(w) >= 2 /\ w[1] = "S" /\ w[2] = "H" THEN <<"SH">> \o RefScan(SubSeq(w, 3, Len(w)))
    ELSE IF Len(w) >= 2 /\ w[1] = "C" /\ w[2] = "H" THEN <<"CH">> \o RefScan(SubSeq(w, 3, Len(w)))
    ELSE RefSingle(w[1]) \o RefScan(Tail(w))

\* C1: _word_to_phonemes returns exactly the phonemes of the left-to-right
\* reference scan of the upper-cased word (digraphs TH, SH, CH first, then the
\* single-letter table, anything else skipped); CAT gives [AE, T] and THIS
\* gives [TH, IH, S].
C1_WordScanMatchesReference ==
    (pc = "done" /\ call = "_word_to_phonemes") =>
        /\ ret = RefScan(upper(arg.word))
        /\ (arg.word = <<"C", "A", "T">> => ret = <<"AE", "T">>)
        /\ (arg.word = <<"T", "H", "I", "S">> => ret = <<"TH", "IH", "S">>)

C1_Witness ==
    /\ pc = "done"
    /\ call = "_word_to_phonemes"
    /\ arg.word = <<"C", "H", "A", "T">>
    /\ ret = <<"CH", "AE", "T">>

(***************************************************************************)
(* Text timeline and frame sampling.                                       *)
(***************************************************************************)
Whitespace == {" "}

\* str.split(): the maximal runs of non-whitespace characters
RECURSIVE SplitFrom(_, _, _, _)
SplitFrom(s, k, cur, words) ==
    IF k > Len(s) THEN (IF cur = <<>> THEN words ELSE Append(words, cur))
    ELSE IF s[k] \in Whitespace
    THEN SplitFrom(s, k + 1, <<>>, IF cur = <<>> THEN words ELSE Append(words, cur))
    ELSE SplitFrom(s, k + 1, Append(cur, s[k]), words)

split(s) == SplitFrom(s, 1, <<>>, <<>>)

\* the literals 0.08 and 0.1 of text_to_phonemes, as the doubles Python
\* reads them: 0x1.47ae147ae147bp-4 and 0x1.999999999999ap-4
PhonemeDuration == [m |-> <<5243, 3932, 27525, 163>>, e |-> -56]

PauseDuration == [m |-> <<6554, 13107, 26214, 204>>, e |-> -56]

Event(phoneme, start_time, duration) ==
    [phoneme |-> phoneme, start_time |-> start_time, duration |-> duration]

\* the inner loop of text_to_phonemes over word_phonemes; st is the pair
\* [phonemes, time_offset] of the method's locals
RECURSIVE WordEvents(_, _, _)
WordEvents(st, word_phonemes, j) ==
    IF j > Len(word_phonemes) THEN st
    ELSE WordEvents(
            [phonemes |-> Append(st.phonemes,
                                 Event(word_phonemes[j], st.time_offset, PhonemeDuration)),
             time_offset |-> FAdd(st.time_offset, PhonemeDuration)],
            word_phonemes, j + 1)

\* TimelineLoop without "time_offset += 0.1" after the pause
RECURSIVE TimelineLoopNoAdvance(_, _, _)
TimelineLoopNoAdvance(st, words, w) ==
    IF w > Len(words) THEN st.phonemes
    ELSE LET s1 == WordEvents(st, word_to_phonemes(words[w]), 1)
         IN  TimelineLoopNoAdvance(
                [phonemes |-> Append(s1.phonemes, Event("sil", s1.time_offset, PauseDuration)),
                 time_offset |-> s1.time_offset],
                words, w + 1)

\* TimelineLoop with the pause appended only after a word that has phonemes
RECURSIVE TimelineLoopSkipSilent(_, _, _)
TimelineLoopSkipSilent(st, words, w) ==
    IF w > Len(words) THEN st.phonemes
    ELSE LET s1 == WordEvents(st, word_to_phonemes(words[w]), 1)
         IN  TimelineLoopSkipSilent(
                IF word_to_phonemes(words[w]) = <<>> THEN s1
                ELSE [phonemes |-> Append(s1.phonemes,
                                          Event("sil", s1.time_offset, PauseDuration)),
                      time_offset |-> FAdd(s1.time_offset, PauseDuration)],
                words, w + 1)

\* the outer loop of text_to_phonemes over words
RECURSIVE TimelineLoop(_, _, _)
TimelineLoop(st, words, w) ==
    IF w > Len(words) THEN st.phonemes
    ELSE LET s1 == WordEvents(st, word_to_phonemes(words[w]), 1)
         IN  TimelineLoop(
                [phonemes |-> Append(s1.phonemes, Event("sil", s1.time_offset, PauseDuration)),
                 time_offset |-> FAdd(s1.time_offset, PauseDuration)],
                words, w + 1)

text_to_phonemes(text) ==
    TimelineLoop([phonemes |-> <<>>, time_offset |-> FZero], split(upper(text)), 1)

\* ActivePhoneme with the interval closed on the right (<= for <)
RECURSIVE ActivePhonemeClosed(_, _, _)
ActivePhonemeClosed(phonemes, current_time, k) ==
    IF k > Len(phonemes) THEN "sil"
    ELSE IF /\ FLe(phonemes[k].start_time, current_time)
            /\ FLe(current_time, FAdd(phonemes[k].start_time, phonemes[k].duration))
    THEN phonemes[k].phoneme
    ELSE ActivePhonemeClosed(phonemes, current_time, k + 1)

\* the inner for loop of generate_animation_sequence, left by break at the
\* first event whose interval holds current_time
RECURSIVE ActivePhoneme(_, _, _)
ActivePhoneme(phonemes, current_time, k) ==
    IF k > Len(phonemes) THEN "sil"
    ELSE IF /\ FLe(phonemes[k].start_time, current_time)
            /\ FLt(current_time, FAdd(phonemes[k].start_time, phonemes[k].duration))
    THEN phonemes[k].phoneme
    ELSE ActivePhoneme(phonemes, current_time, k + 1)

\* generate_animation_sequence(text, fps) for fps >= 1
generate_animation_sequence(text, fps) ==
    LET phonemes       == text_to_phonemes(text)
        last           == phonemes[Len(phonemes)]
        total_duration == IF phonemes # <<>> THEN FAdd(last.start_time, last.duration)
                          ELSE FZero
        frame_duration == FDiv(FromInt(1), FromInt(fps))
        num_frames     == FTrunc(FDiv(total_duration, frame_duration)) + 1
    IN  [n \in 1..num_frames |->
            LET frame_idx      == n - 1
                current_time   == FMul(FromInt(frame_idx), frame_duration)
                active_phoneme == ActivePhoneme(phonemes, current_time, 1)
            IN  [frame |-> frame_idx,
                 time |-> current_time,
                 phoneme |-> active_phoneme,
                 blendshapes |-> phoneme_to_viseme(active_phoneme)]]

(***************************************************************************)
(* Inputs of the text path: every text of at most MaxTextLen characters    *)
(* over TextAlphabet, at every frame rate of FpsSet (0 makes 1.0 / fps     *)
(* raise ZeroDivisionError).                                               *)
(***************************************************************************)
MaxTextLen == 3

TextAlphabet == {"H", "I", "t", "1", " "}

TextInputs == SeqsUpTo(TextAlphabet, MaxTextLen)

FpsSet == {0, 1, 10, 30, 50}

\* one call of PhonemeMapper.text_to_phonemes
CallTextToPhonemes ==
    /\ pc = "idle"
    /\ \E text \in TextInputs :
        /\ pc' = "done"
        /\ call' = "text_to_phonemes"
        /\ arg' = [text |-> text]
        /\ ret' = text_to_phonemes(text)
        /\ UNCHANGED <<raised, audio_base64, animation_sessions>>

(***************************************************************************)
(* The POST /animate/text handler, animate_from_text, in its steps: the    *)
(* request arrives, generate_animation_sequence is called (line 115), and  *)
(* the handler either stores the session and answers (lines 117-139) or    *)
(* lands in "except Exception" (lines 141-143), which turns any exception  *)
(* of the body, the HTTPException(400) of "if not frames" included, into   *)
(* HTTPException(500).  While pc = "generated", ret is the list the call   *)
(* of generate_animation_sequence returned.  The session's generated id    *)
(* and created_at are left out.                                            *)
(***************************************************************************)
animate_from_text_request ==
    /\ pc = "idle"
    /\ \E text \in TextInputs, fps \in FpsSet :
        /\ pc' = "handling"
        /\ call' = "animate_from_text"
        /\ arg' = [text |-> text, fps |-> fps]
        /\ UNCHANGED <<ret, raised, audio_base64, animation_sessions>>

animate_from_text_generate ==
    /\ pc = "handling"
    /\ IF arg.fps = 0
       THEN /\ pc' = "except"
            /\ raised' = "ZeroDivisionError"
            /\ UNCHANGED ret
       ELSE /\ pc' = "generated"
            /\ ret' = generate_animation_sequence(arg.text, arg.fps)
            /\ UNCHANGED raised
    /\ UNCHANGED <<call, arg, audio_base64, animation_sessions>>

animate_from_text_respond ==
    /\ pc = "generated"
    /\ IF ret = <<>>
       THEN /\ pc' = "except"
            /\ raised' = "HTTPException(400)"
            /\ UNCHANGED <<ret, animation_sessions>>
       ELSE LET frames   == ret
                duration == frames[Len(frames)].time
            IN  /\ pc' = "done"
                /\ animation_sessions' =
                       Append(animation_sessions,
                              [input_type |-> "text", input_data |-> arg.text,
                               frames |-> frames, duration |-> duration])
                /\ ret' = [frames |-> frames, duration |-> duration,
                           fps |-> arg.fps, total_frames |-> Len(frames)]
                /\ UNCHANGED raised
    /\ UNCHANGED <<call, arg, audio_base64>>

animate_from_text_except ==
    /\ pc = "except"
    /\ pc' = "done"
    /\ raised' = "HTTPException(500)"
    /\ ret' = <<>>
    /\ UNCHANGED <<call, arg, audio_base64, animation_sessions>>

NextText ==
    \/ CallTextToPhonemes
    \/ animate_from_text_request
    \/ animate_from_text_generate
    \/ animate_from_text_respond
    \/ animate_from_text_except

SpecText == Init /\ [][NextText]_vars

(***************************************************************************)
(* Claims on the text path.                                                *)
(***************************************************************************)
\* the phonemes of a whole text by the reference scan: whitespace is an
\* unmapped character and no digraph spans it
NoMappableCharacters(text) == RefScan(upper(text)) = <<>>

\* number of words of a text: the positions where a run of non-whitespace starts
WordCount(text) ==
    Cardinality({k \in 1..Len(text) :
                    /\ text[k] \notin Whitespace
                    /\ (k = 1 \/ text[k - 1] \in Whitespace)})

RECURSIVE PhonemeCount(_)
PhonemeCount(words) ==
    IF words = <<>> THEN 0 ELSE Len(RefScan(upper(Head(words)))) + PhonemeCount(Tail(words))

BDist(a, b) == IF BCmp(a, b) >= 0 THEN BSub(a, b) ELSE BSub(b, a)

\* the double x is num / den up to a relative error of 2^-50 (exact comparison
\* of x * den with num)
NearRatio(x, num, den) ==
    IF num = 0 THEN x = FZero
    ELSE /\ x.m # <<>>
         /\ LET a == BShl(BMulSmall(x.m, den), IF x.e > 0 THEN x.e ELSE 0)
                b == BShl(BFromInt(num), IF x.e < 0 THEN 0 - x.e ELSE 0)
            IN  BCmp(BShl(BDist(a, b), 50), b) <= 0

\* C2: for a text with at least one word and fps >= 1,
\* generate_animation_sequence returns floor(D * fps) + 1 frames, D the exact
\* 0.08 * (number of phonemes) + 0.1 * (number of words); frame i has index i
\* and timestamp i / fps.
C2_FrameCountExact ==
    (pc = "generated" /\ split(arg.text) # <<>>) =>
        LET hundredths == 8 * PhonemeCount(split(arg.text)) + 10 * WordCount(arg.text)
        IN  /\ Len(ret) = ((hundredths * arg.fps) \div 100) + 1
            /\ \A n \in 1..Len(ret) :
                  /\ ret[n].frame = n - 1
                  /\ NearRatio(ret[n].time, n - 1, arg.fps)

\* the events of the timeline whose interval [start, start + duration) holds t
EventsAt(timeline, t) ==
    {k \in 1..Len(timeline) :
        /\ FLe(timeline[k].start_time, t)
        /\ FLt(t, FAdd(timeline[k].start_time, timeline[k].duration))}

Least(S) == CHOOSE k \in S : \A j \in S : k <= j

\* C3: for a non-empty timeline every emitted frame carries the symbol of the
\* first event whose interval holds the frame's timestamp, and sil when no
\* event does; frame 0 carries the first event's symbol, and "HI" at fps 10
\* yields exactly the two frames IH, sil.
C3_FirstMatchingEvent ==
    (pc = "generated" /\ text_to_phonemes(arg.text) # <<>>) =>
        LET timeline == text_to_phonemes(arg.text)
        IN  /\ \A n \in 1..Len(ret) :
                  LET at == EventsAt(timeline, ret[n].time)
                  IN  ret[n].phoneme =
                          IF at = {} THEN "sil" ELSE timeline[Least(at)].phoneme
            /\ ret[1].phoneme = timeline[1].phoneme
            /\ (arg.text = <<"H", "I">> /\ arg.fps = 10 =>
                  [n \in 1..Len(ret) |-> ret[n].phoneme] = <<"IH", "sil">>)

\* "H I" at fps 10: frame 1 (t = 0.1) lies on the boundary of the first pause
\* and the phoneme IH, and frame 2 (t = 0.2) lies in the trailing pause
C3_Witness ==
    /\ pc = "generated"
    /\ arg.text = <<"H", " ", "I">>
    /\ arg.fps = 10
    /\ [n \in 1..Len(ret) |-> ret[n].phoneme] = <<"sil", "IH", "sil">>

\* C4: when the timeline has no event the frame sampler fails with
\* EmptyAnimationError and produces no frame.
C4_EmptyTimelineFails ==
    (/\ call = "animate_from_text"
     /\ pc \in {"generated", "done"}
     /\ arg.fps >= 1
     /\ text_to_phonemes(arg.text) = <<>>) =>
        (raised = "EmptyAnimationError" /\ ret = <<>>)

RECURSIVE ExpectedShape(_)
ExpectedShape(words) ==
    IF words = <<>> THEN <<>>
    ELSE LET wp == word_to_phonemes(Head(words))
         IN  [j \in 1..Len(wp) |-> <<wp[j], PhonemeDuration>>]
               \o << <<"sil", PauseDuration>> >>
               \o ExpectedShape(Tail(words))

\* C6: the timeline is, word by word, one 0.08 s event per phoneme of the word
\* then one 0.1 s sil event; the first event starts at 0 and every later event
\* starts at the previous start plus the previous duration, so starts never
\* decrease.
C6_ContiguousTimeline ==
    (pc = "done" /\ call = "text_to_phonemes") =>
        LET shape == ExpectedShape(split(arg.text))
        IN  /\ Len(ret) = Len(shape)
            /\ \A k \in 1..Len(ret) :
                  /\ ret[k].phoneme = shape[k][1]
                  /\ ret[k].duration = shape[k][2]
            /\ (ret # <<>> => ret[1].start_time = FZero)
            /\ \A k \in 2..Len(ret) :
                  /\ ret[k].start_time = FAdd(ret[k - 1].start_time, ret[k - 1].duration)
                  /\ FLe(ret[k - 1].start_time, ret[k].start_time)

C6_Witness ==
    /\ pc = "done"
    /\ call = "text_to_phonemes"
    /\ arg.text = <<"t", "H", "I">>
    /\ Len(ret) = 3
    /\ ret[3] = Event("sil", FAdd(PhonemeDuration, PhonemeDuration), PauseDuration)

(***************************************************************************)
(* Audio path.  A sample is kept in thousandths of full scale (0.05 is     *)
(* 50), so that the RMS energy sqrt(mean(x^2)) of a frame is compared with *)
(* a threshold exactly, on the squares: energy < T iff sum(x^2) < T^2 * n.  *)
(***************************************************************************)
\* the literals 0.03 and 0.01 of analyze_audio_features, as the doubles
\* Python reads them: 0x1.eb851eb851eb8p-6 and 0x1.47ae147ae147bp-7
FrameSeconds == [m |-> <<7864, 22282, 24903, 245>>, e |-> -58]

HopSeconds == [m |-> <<5243, 3932, 27525, 163>>, e |-> -59]

\* the thresholds 0.01, 0.05 and 0.15, in thousandths
SilenceBelow == 10

ClosedBelow == 50

MediumBelow == 150

RECURSIVE SumSquares(_)
SumSquares(frame_audio) ==
    IF frame_audio = <<>> THEN 0
    ELSE Head(frame_audio) * Head(frame_audio) + SumSquares(Tail(frame_audio))

\* energy < threshold, for energy = np.sqrt(np.mean(frame_audio ** 2))
EnergyBelow(frame_audio, threshold) ==
    SumSquares(frame_audio) < threshold * threshold * Len(frame_audio)

\* classify_energy with "<=" for "<" at the first threshold
classify_energy_closed(frame_audio) ==
    IF SumSquares(frame_audio) <= SilenceBelow * SilenceBelow * Len(frame_audio) THEN "sil"
    ELSE IF EnergyBelow(frame_audio, ClosedBelow) THEN "M"
    ELSE IF EnergyBelow(frame_audio, MediumBelow) THEN "EH"
    ELSE "AA"

\* the if/elif chain on energy of analyze_audio_features
classify_energy(frame_audio) ==
    IF EnergyBelow(frame_audio, SilenceBelow) THEN "sil"
    ELSE IF EnergyBelow(frame_audio, ClosedBelow) THEN "M"
    ELSE IF EnergyBelow(frame_audio, MediumBelow) THEN "EH"
    ELSE "AA"

\* frame_size and hop_size of analyze_audio_features: int(sample_rate * 0.03)
\* and int(sample_rate * 0.01)
frame_size_of(sample_rate) == FTrunc(FMul(FromInt(sample_rate), FrameSeconds))

hop_size_of(sample_rate) == FTrunc(FMul(FromInt(sample_rate), HopSeconds))

(***************************************************************************)
(* Inputs of the audio path: every buffer of at most MaxSamples samples    *)
(* over Amplitudes, at every rate of SampleRates (30 ms is 3 and 4         *)
(* samples, 10 ms is 1 sample).                                            *)
(***************************************************************************)
MaxSamples == 5

Amplitudes == {0, 10, 30, 50, 150, 200}

SampleRates == {100, 150}

\* frame_size and hop_size for each rate of the inputs, computed once
FrameSizes == [sample_rate \in SampleRates |-> frame_size_of(sample_rate)]

HopSizes == [sample_rate \in SampleRates |-> hop_size_of(sample_rate)]

\* i * hop_size / sample_rate for each rate and frame index of the inputs,
\* computed once
FrameTimes ==
    [sample_rate \in SampleRates |->
        [i \in 0..MaxSamples |->
            FDiv(FromInt(i * HopSizes[sample_rate]), FromInt(sample_rate))]]

\* the frames of analyze_audio_features(audio_data, sample_rate) once
\* frame_size and hop_size > 0 are computed; the energy of a frame is kept as
\* the pair (sum of squares, count)
analyze_audio_features(audio_data, sample_rate, frame_size, hop_size) ==
    LET num_frames == (Len(audio_data) - frame_size) \div hop_size
    IN  [n \in 1..num_frames |->
            LET i           == n - 1
                start_idx   == i * hop_size
                end_idx     == start_idx + frame_size
                frame_audio == SubSeq(audio_data, start_idx + 1, end_idx)
                phoneme     == classify_energy(frame_audio)
            IN  [frame |-> i,
                 time |-> FrameTimes[sample_rate][i],
                 phoneme |-> phoneme,
                 energy |-> [sum_squares |-> SumSquares(frame_audio),
                             count |-> Len(frame_audio)],
                 blendshapes |-> phoneme_to_viseme(phoneme)]]

\* one call of PhonemeMapper.analyze_audio_features; a hop_size of 0 makes
\* the floor division of line 179 raise
CallAnalyzeAudioFeatures ==
    /\ pc = "idle"
    /\ \E sample_rate \in SampleRates :
        LET frame_size == FrameSizes[sample_rate]
            hop_size   == HopSizes[sample_rate]
        IN  \E audio_data \in SeqsUpTo(Amplitudes, MaxSamples) :
                /\ pc' = "done"
                /\ call' = "analyze_audio_features"
                /\ arg' = [audio_data |-> audio_data, sample_rate |-> sample_rate]
                /\ IF hop_size = 0
                   THEN raised' = "ZeroDivisionError" /\ ret' = <<>>
                   ELSE /\ raised' = "none"
                        /\ ret' = analyze_audio_features(audio_data, sample_rate,
                                                         frame_size, hop_size)
                /\ UNCHANGED <<audio_base64, animation_sessions>>

NextAudio == CallAnalyzeAudioFeatures

SpecAudio == Init /\ [][NextAudio]_vars

\* C7: analyze_audio_features emits one frame for every hop-aligned window
\* that lies fully inside the buffer (every i >= 0 with
\* i * hop_size + frame_size <= L, hop_size and frame_size the samples of 10 ms
\* and 30 ms), in increasing i; frame i has index i and timestamp
\* i * hop_size / sample_rate.
C7_OneFramePerContainedWindow ==
    (pc = "done" /\ call = "analyze_audio_features" /\ raised = "none") =>
        LET L          == Len(arg.audio_data)
            frame_size == (3 * arg.sample_rate) \div 100
            hop_size   == arg.sample_rate \div 100
            windows    == {i \in 0..L : i * hop_size + frame_size <= L}
        IN  /\ Len(ret) = Cardinality(windows)
            /\ \A n \in 1..Len(ret) :
                  /\ ret[n].frame = n - 1
                  /\ NearRatio(ret[n].time, (n - 1) * hop_size, arg.sample_rate)

\* C8: a frame of energy e is given sil when e < 0.01, M when
\* 0.01 <= e < 0.05, EH when 0.05 <= e < 0.15 and AA when e >= 0.15: for the
\* energies e of the grid of thousandths (e * e * count = sum of squares), and
\* on the squares for every other energy; so 0.03 gives M and 0.2 gives AA.
C8_EnergyThresholds ==
    (pc = "done" /\ call = "analyze_audio_features" /\ raised = "none") =>
        \A n \in 1..Len(ret) :
            LET sq == ret[n].energy.sum_squares
                c  == ret[n].energy.count
            IN  /\ ret[n].phoneme \in {"sil", "M", "EH", "AA"}
                /\ \A e \in 0..200 :
                      e * e * c = sq =>
                          ret[n].phoneme =
                              IF e < 10 THEN "sil"
                              ELSE IF e < 50 THEN "M"
                              ELSE IF e < 150 THEN "EH"
                              ELSE "AA"
                /\ (ret[n].phoneme = "sil" <=> sq < 100 * c)
                /\ (ret[n].phoneme = "M" <=> (100 * c <= sq /\ sq < 2500 * c))
                /\ (ret[n].phoneme = "EH" <=> (2500 * c <= sq /\ sq < 22500 * c))
                /\ (ret[n].phoneme = "AA" <=> 22500 * c <= sq)

\* a frame of energy exactly 0.01 (M) followed by a frame of energy 0.03 (M),
\* and in another call 0.2 (AA): here the boundary 0.01 and the value 0.03
C8_Witness ==
    /\ pc = "done"
    /\ call = "analyze_audio_features"
    /\ arg.audio_data = <<10, 10, 10, 30, 30>>
    /\ arg.sample_rate = 100
    /\ Len(ret) = 2
    /\ ret[1].energy = [sum_squares |-> 300, count |-> 3]
    /\ ret[1].phoneme = "M"

(***************************************************************************)
(* AudioProcessor.decode_audio_base64, in two steps: the data-URL prefix   *)
(* is removed (lines 27-28; audio_base64 is the method's parameter, which  *)
(* line 28 assigns), then the payload is decoded (lines 31-39).  The       *)
(* inputs hold no "=": b64decode drops every character outside the base64  *)
(* alphabet and wants a multiple of four of the others; np.frombuffer      *)
(* wants an even number of bytes and reads little-endian int16.  A sample  *)
(* x / 32768.0 is kept as its numerator x.                                 *)
(***************************************************************************)
RECURSIVE SplitOnFrom(_, _, _, _, _)
SplitOnFrom(s, sep, k, cur, parts) ==
    IF k > Len(s) THEN Append(parts, cur)
    ELSE IF s[k] = sep THEN SplitOnFrom(s, sep, k + 1, <<>>, Append(parts, cur))
    ELSE SplitOnFrom(s, sep, k + 1, Append(cur, s[k]), parts)

\* str.split(sep)
split_on(s, sep) == SplitOnFrom(s, sep, 1, <<>>, <<>>)

\* lines 27-28: audio_base64.split(',')[1] when the string holds a comma
strip_prefix(s) ==
    IF \E k \in 1..Len(s) : s[k] = "," THEN split_on(s, ",")[2] ELSE s

B64Alphabet ==
    UpperLetters \o LowerLetters
      \o <<"0", "1", "2", "3", "4", "5", "6", "7", "8", "9", "+", "/">>

B64Index(c) == (CHOOSE i \in 1..Len(B64Alphabet) : B64Alphabet[i] = c) - 1

IsB64(c) == \E i \in 1..Len(B64Alphabet) : B64Alphabet[i] = c

\* the three bytes of each group of four base64 digits
B64Bytes(digits) ==
    [b \in 1..(3 * (Len(digits) \div 4)) |->
        LET g == (b - 1) \div 3
            v == B64Index(digits[4 * g + 1]) * 262144 + B64Index(digits[4 * g + 2]) * 4096
                   + B64Index(digits[4 * g + 3]) * 64 + B64Index(digits[4 * g + 4])
        IN  CASE (b - 1) % 3 = 0 -> v \div 65536
              [] (b - 1) % 3 = 1 -> (v \div 256) % 256
              [] OTHER -> v % 256]

\* np.frombuffer(audio_bytes, dtype=np.int16)
Int16Samples(bytes) ==
    [k \in 1..(Len(bytes) \div 2) |->
        LET u == bytes[2 * k - 1] + 256 * bytes[2 * k]
        IN  IF u >= 32768 THEN u - 65536 ELSE u]

MaxEncodedLen == 8

EncodedAlphabet == {",", "A", "/"}

decode_audio_base64_strip ==
    /\ pc = "idle"
    /\ \E s \in SeqsUpTo(EncodedAlphabet, MaxEncodedLen) :
        /\ pc' = "stripped"
        /\ call' = "decode_audio_base64"
        /\ arg' = [audio_base64 |-> s]
        /\ audio_base64' = strip_prefix(s)
        /\ UNCHANGED <<ret, raised, animation_sessions>>

decode_audio_base64_decode ==
    /\ pc = "stripped"
    /\ pc' = "done"
    /\ LET digits == SelectSeq(audio_base64, IsB64)
           bytes  == B64Bytes(digits)
       IN  IF Len(digits) % 4 # 0
           THEN raised' = "binascii.Error" /\ UNCHANGED ret
           ELSE IF Len(bytes) % 2 # 0
           THEN raised' = "ValueError" /\ UNCHANGED ret
           ELSE ret' = Int16Samples(bytes) /\ UNCHANGED raised
    /\ UNCHANGED <<call, arg, audio_base64, animation_sessions>>

NextDecode == decode_audio_base64_strip \/ decode_audio_base64_decode

SpecDecode == Init /\ [][NextDecode]_vars

\* C9: when the input holds a comma the payload handed to the base64 decoder
\* is the whole suffix after the first comma, later commas and the text after
\* them included; without a comma it is the whole input.
C9_PayloadIsSuffixAfterFirstComma ==
    (pc = "stripped" /\ call = "decode_audio_base64") =>
        LET s      == arg.audio_base64
            commas == {k \in 1..Len(s) : s[k] = ","}
        IN  audio_base64 =
                IF commas = {} THEN s ELSE SubSeq(s, Least(commas) + 1, Len(s))

(***************************************************************************)
(* PhonemeMapper.phoneme_to_viseme on every symbol of at most MaxSymbolLen *)
(* upper-case letters and on a few other strings.                          *)
(***************************************************************************)
MaxSymbolLen == 2

RECURSIVE Join(_)
Join(chars) == IF chars = <<>> THEN "" ELSE Head(chars) \o Join(Tail(chars))

SymbolInputs ==
    {Join(w) : w \in SeqsUpTo({UpperLetters[k] : k \in 1..Len(UpperLetters)}, MaxSymbolLen)}
      \cup {"sil", "SIL", "Sil", "aa", "th", "ER2", "AA ", "silence", "?", "0"}

\* one call of PhonemeMapper.phoneme_to_viseme; the default
\* self.viseme_map['sil'] is evaluated before dict.get is called
CallPhonemeToViseme ==
    /\ pc = "idle"
    /\ \E phoneme \in SymbolInputs :
        /\ pc' = "done"
        /\ call' = "phoneme_to_viseme"
        /\ arg' = [phoneme |-> phoneme]
        /\ IF "sil" \in DOMAIN VISEME_MAP
           THEN ret' = phoneme_to_viseme(phoneme) /\ raised' = "none"
           ELSE ret' = <<>> /\ raised' = "KeyError"
        /\ UNCHANGED <<audio_base64, animation_sessions>>

NextViseme == CallPhonemeToViseme

SpecViseme == Init /\ [][NextViseme]_vars

\* the 30 symbols of the viseme table
VisemeKeys ==
    {"sil", "AA", "AE", "AH", "AO", "EH", "ER", "IH", "IY", "UH", "UW",
     "B", "P", "M", "F", "V", "TH", "S", "Z", "SH", "CH", "T", "D", "N",
     "L", "R", "K", "G", "W", "Y"}

\* the entry of sil: a closed mouth
SilEntry == Weights(0, WeightOne, 0, 0, 0)

\* C10: phoneme_to_viseme never fails; for a key of the table it returns that
\* key's entry, for any other string the sil entry, and the record returned
\* has the five channels, each weight in [0, 1].
C10_TotalLookup ==
    (pc = "done" /\ call = "phoneme_to_viseme") =>
        /\ raised = "none"
        /\ (arg.phoneme \in VisemeKeys => ret = VISEME_MAP[arg.phoneme])
        /\ (arg.phoneme \notin VisemeKeys => ret = SilEntry)
        /\ DOMAIN ret = Channels
        /\ \A c \in Channels : ret[c] \in 0..WeightOne

C10_Witness ==
    /\ pc = "done"
    /\ call = "phoneme_to_viseme"
    /\ arg.phoneme = "ZZ"
    /\ ret = SilEntry
    /\ raised = "none"

(***************************************************************************)
(* AudioProcessor.detect_voice_activity.  Samples and the threshold are    *)
(* kept in thousandths; np.sqrt(np.mean(frame ** 2)) > threshold is        *)
(* compared on the squares (an energy is never negative, so it exceeds     *)
(* every negative threshold).  start_idx = None is kept as NoStart, which  *)
(* is no sample index.                                                     *)
(***************************************************************************)
VoiceFrameSeconds == [m |-> <<5243, 3932, 27525, 163>>, e |-> -58]

NoStart == -1

\* frame_size = int(self.sample_rate * 0.02)
voice_frame_size_of(sample_rate) == FTrunc(FMul(FromInt(sample_rate), VoiceFrameSeconds))

\* range(0, len(audio_data) - frame_size, hop_size), hop_size > 0
FrameStarts(length, frame_size, hop_size) ==
    LET stop == length - frame_size
        n    == IF stop <= 0 THEN 0 ELSE (stop + hop_size - 1) \div hop_size
    IN  [k \in 1..n |-> (k - 1) * hop_size]

\* is_voice = np.array(energy) > threshold, energy the RMS of each frame
is_voice_of(audio_data, threshold, frame_size, hop_size) ==
    LET starts == FrameStarts(Len(audio_data), frame_size, hop_size)
    IN  [k \in 1..Len(starts) |->
            LET frame == SubSeq(audio_data, starts[k] + 1, starts[k] + frame_size)
            IN  IF threshold < 0 THEN TRUE
                ELSE SumSquares(frame) > threshold * threshold * Len(frame)]

\* RegionScan with the truth value of start_idx for "start_idx is not None"
RECURSIVE RegionScanTruthy(_, _, _, _, _)
RegionScanTruthy(is_voice, hop_size, n, start_idx, regions) ==
    IF n > Len(is_voice) THEN [start_idx |-> start_idx, regions |-> regions]
    ELSE LET i == n - 1
         IN  IF is_voice[n] /\ start_idx \in {NoStart, 0}
             THEN RegionScanTruthy(is_voice, hop_size, n + 1, i * hop_size, regions)
             ELSE IF ~is_voice[n] /\ start_idx \notin {NoStart, 0}
             THEN RegionScanTruthy(is_voice, hop_size, n + 1, NoStart,
                                   Append(regions, <<start_idx, i * hop_size>>))
             ELSE RegionScanTruthy(is_voice, hop_size, n + 1, start_idx, regions)

\* the loop of lines 86-92 from position n on
RECURSIVE RegionScan(_, _, _, _, _)
RegionScan(is_voice, hop_size, n, start_idx, regions) ==
    IF n > Len(is_voice) THEN [start_idx |-> start_idx, regions |-> regions]
    ELSE LET i == n - 1
         IN  IF is_voice[n] /\ start_idx = NoStart
             THEN RegionScan(is_voice, hop_size, n + 1, i * hop_size, regions)
             ELSE IF ~is_voice[n] /\ start_idx # NoStart
             THEN RegionScan(is_voice, hop_size, n + 1, NoStart,
                             Append(regions, <<start_idx, i * hop_size>>))
             ELSE RegionScan(is_voice, hop_size, n + 1, start_idx, regions)

\* lines 80-98 for frame_size and hop_size > 0 already computed
detect_voice_activity(audio_data, threshold, frame_size, hop_size) ==
    LET is_voice == is_voice_of(audio_data, threshold, frame_size, hop_size)
        scanned  == RegionScan(is_voice, hop_size, 1, NoStart, <<>>)
    IN  IF scanned.start_idx # NoStart
        THEN Append(scanned.regions, <<scanned.start_idx, Len(audio_data)>>)
        ELSE scanned.regions

(***************************************************************************)
(* Inputs of the voice-activity path: every buffer of at most              *)
(* MaxVoiceSamples samples over VoiceAmplitudes, for a processor built at  *)
(* each rate of VoiceSampleRates (frames of 1, 2 and 4 samples, hops of    *)
(* 0, 1 and 2) and each threshold of Thresholds.                           *)
(***************************************************************************)
MaxVoiceSamples == 6

VoiceAmplitudes == {0, 10, 30}

VoiceSampleRates == {50, 100, 200}

Thresholds == {-10, 0, 20}

\* frame_size for each rate of the inputs, computed once
VoiceFrameSizes == [sample_rate \in VoiceSampleRates |-> voice_frame_size_of(sample_rate)]

\* one call of AudioProcessor.detect_voice_activity; a hop_size of 0 makes
\* range() of line 76 raise
CallDetectVoiceActivity ==
    /\ pc = "idle"
    /\ \E sample_rate \in VoiceSampleRates, threshold \in Thresholds :
        LET frame_size == VoiceFrameSizes[sample_rate]
            hop_size   == frame_size \div 2
        IN  \E audio_data \in SeqsUpTo(VoiceAmplitudes, MaxVoiceSamples) :
                /\ pc' = "done"
                /\ call' = "detect_voice_activity"
                /\ arg' = [audio_data |-> audio_data, sample_rate |-> sample_rate,
                           threshold |-> threshold]
                /\ IF hop_size = 0
                   THEN raised' = "ValueError" /\ ret' = <<>>
                   ELSE /\ raised' = "none"
                        /\ ret' = detect_voice_activity(audio_data, threshold,
                                                        frame_size, hop_size)
                /\ UNCHANGED <<audio_base64, animation_sessions>>

NextVoice == CallDetectVoiceActivity

SpecVoice == Init /\ [][NextVoice]_vars

\* the maximal runs of consecutive active frames, as pairs <<a, b>> of frame
\* indices: frames a..b-1 are active, frame a-1 and frame b are not (or lie
\* outside the sequence)
ActiveRuns(is_voice) ==
    {r \in (0..Len(is_voice)) \X (0..Len(is_voice)) :
        /\ r[1] < r[2]
        /\ \A i \in r[1]..(r[2] - 1) : is_voice[i + 1]
        /\ (r[1] = 0 \/ ~is_voice[r[1]])
        /\ (r[2] = Len(is_voice) \/ ~is_voice[r[2] + 1])}

\* C11: the regions returned by detect_voice_activity are, in order, the
\* maximal runs of consecutive active frames and nothing else: a run of frames
\* a..b-1 followed by an inactive frame b gives (a * hop_size, b * hop_size),
\* a run that reaches the last frame gives (a * hop_size, len(buf)); an
\* all-zero buffer with a threshold >= 0 gives the empty list.
C11_RegionsAreMaximalRuns ==
    (pc = "done" /\ call = "detect_voice_activity" /\ raised = "none") =>
        LET frame_size == (2 * arg.sample_rate) \div 100
            hop_size   == frame_size \div 2
            is_voice   == is_voice_of(arg.audio_data, arg.threshold, frame_size, hop_size)
            runs       == ActiveRuns(is_voice)
            region(r)  == <<r[1] * hop_size,
                            IF r[2] = Len(is_voice) THEN Len(arg.audio_data)
                            ELSE r[2] * hop_size>>
        IN  /\ Len(ret) = Cardinality(runs)
            /\ \A r \in runs :
                  ret[Cardinality({q \in runs : q[1] <= r[1]})] = region(r)
            /\ ((arg.threshold >= 0 /\ \A k \in 1..Len(arg.audio_data) : arg.audio_data[k] = 0)
                  => ret = <<>>)

\* two runs, the first from frame 0 closed by an inactive frame, the second
\* reaching the last frame
C11_Witness ==
    /\ pc = "done"
    /\ call = "detect_voice_activity"
    /\ arg.audio_data = <<30, 0, 0, 30, 0, 0>>
    /\ arg.sample_rate = 100
    /\ arg.threshold = 20
    /\ ret = <<<<0, 1>>, <<2, 6>>>>

(***************************************************************************)
(* The whole program: any one of the calls.                                *)
(***************************************************************************)
Next == NextG2P \/ NextText \/ NextAudio \/ NextDecode \/ NextViseme \/ NextVoice

Spec == Init /\ [][Next]_vars

====
